---- MODULE Spec2Model ----
(***************************************************************************)
(* Model of the image I/O shims (Common/UtilNPP/ImageIO.h) and of the mip  *)
(* level constructor (src/MipMapChunk.h).                                  *)
(*                                                                         *)
(* Memory is modelled at byte level: every image owns one region of the    *)
(* heap, a region is a flat byte array of pitch*height bytes, and every    *)
(* memcpy of the source is a Memcpy here with the same offsets.            *)
(***************************************************************************)
EXTENDS Integers, Sequences, FiniteSets, TLC

\* ------------------------------------------------------------------ bounds
MaxRegions == 9
MaxOps == 2
MaxPad == 1
MaxLevels == 2
MaxOpsBeforeBuild == 0

\* ------------------------------------------------------- program constants
BytesC1 == 1
BytesC4 == 4
BitsC1 == 8
BitsC4 == 32
Opaque == 255

VARIABLES
    heap,        \* region id -> [st, frees, bytes]: host and device memory
    img,         \* the caller's image objects: name -> [w, h, pitch, reg, alive]
    disk,        \* file name -> file
    pBitmapSlot, \* what the gray loader's local pBitmap holds before it is assigned
    hostPad,     \* row padding chosen by the host allocator
    devPad,      \* row padding chosen by the device allocator
    last,        \* the outcome of the last I/O call
    nOps,        \* number of I/O calls made
    build,       \* the chain build in progress
    chain,       \* the levels the build holds
    stream,      \* the caller's stream context: enqueued and completed work
    resizeLog,   \* every call of the resize primitive, in order
    reads        \* levels whose contents the host has read

vars == <<heap, img, disk, pBitmapSlot, hostPad, devPad, last, nOps,
          build, chain, stream, resizeLog, reads>>

ioVars == <<disk, pBitmapSlot, last, nOps>>
mipVars == <<build, chain, stream, resizeLog, reads>>

\* ------------------------------------------------------------------ bytes
Junk == 0 - 1   \* an uninitialised byte

Regions == 1..MaxRegions

\* memcpy(dst + dOff, src + sOff, n) on flat byte arrays (0-based offsets)
Memcpy(dst, dOff, src, sOff, n) ==
    [i \in 1..Len(dst) |->
        IF i > dOff /\ i <= dOff + n THEN src[sOff + (i - dOff)] ELSE dst[i]]

\* the n bytes at offset off
Bytes(mem, off, n) == [i \in 1..n |-> mem[off + i]]

Fill(n, b) == [i \in 1..n |-> b]

\* ------------------------------------------------------------------- heap
FreeRegions(hp) == {r \in Regions : hp[r].st = "unalloc"}

NewRegion(hp) == CHOOSE r \in FreeRegions(hp) : \A q \in FreeRegions(hp) : r <= q

\* an allocation of w x h succeeds
CanAlloc(hp, w, h) == w > 0 /\ h > 0 /\ FreeRegions(hp) # {}

Malloc2D(hp, pitch, h) ==
    [hp EXCEPT ![NewRegion(hp)] = [st |-> "live", frees |-> 0, bytes |-> Fill(pitch * h, Junk)]]

Free2D(hp, r) ==
    IF r = 0 THEN hp
    ELSE [hp EXCEPT ![r].st = "released", ![r].frees = @ + 1]

Store(hp, r, bytes) == [hp EXCEPT ![r].bytes = bytes]

NoImage == [w |-> 0, h |-> 0, pitch |-> 0, reg |-> 0, alive |-> TRUE]

HostPitch(w, n) == w * n + hostPad
DevPitch(w, n) == w * n + devPad

\* ImagePacked(width, height): the image that owns the region just allocated
NewImage(hp, w, h, pitch) ==
    [w |-> w, h |-> h, pitch |-> pitch, reg |-> NewRegion(hp), alive |-> TRUE]

\* row i (0-based) of an image, without its padding
PixelRow(hp, im, n, i) == Bytes(hp[im.reg].bytes, i * im.pitch, im.w * n)

PixelRows(hp, im, n) == [i \in 1..im.h |-> PixelRow(hp, im, n, i - 1)]

\* copy of h rows of rowBytes bytes between two pitched arrays
RECURSIVE Copy2D(_, _, _, _, _, _, _)
Copy2D(dst, dPitch, src, sPitch, rowBytes, h, i) ==
    IF i >= h THEN dst
    ELSE Copy2D(Memcpy(dst, i * dPitch, src, i * sPitch, rowBytes),
                dPitch, src, sPitch, rowBytes, h, i + 1)

\* ---------------------------------------------------------------- bitmaps
\* A bitmap of the codec: scan-line 0 is the bottom row of the picture.
NullBitmap == [w |-> 0, h |-> 0, bpp |-> 0, color |-> "NONE", pitch |-> 0, bits |-> <<>>]

\* a pointer that refers to no bitmap at all
WildBitmap == [w |-> 0, h |-> 0, bpp |-> 0, color |-> "WILD", pitch |-> 0, bits |-> <<>>]

\* FreeImage_GetPitch: scan-lines are aligned to 4 bytes
BitmapPitch(w, bpp) == ((w * bpp + 31) \div 32) * 4

ColorOf(ch) == IF ch = 1 THEN "MINISBLACK" ELSE IF ch = 3 THEN "RGB" ELSE "RGBALPHA"

\* files store R,G,B(,A); bitmaps store B,G,R(,A)
SwizzleRow(row, ch) ==
    [j \in 1..Len(row) |->
        LET p == (j - 1) \div ch
            c == (j - 1) % ch
            c2 == IF ch >= 3 /\ c \in {0, 2} THEN 2 - c ELSE c
        IN row[p * ch + c2 + 1]]

NoData == [w |-> 0, h |-> 0, ch |-> 0, rows |-> <<>>]

\* the bitmap the codec builds from a file's pixel rows (stored top row first)
Decode(data) ==
    LET bpp == 8 * data.ch
        pitch == BitmapPitch(data.w, bpp)
    IN [w |-> data.w, h |-> data.h, bpp |-> bpp, color |-> ColorOf(data.ch), pitch |-> pitch,
        bits |-> [i \in 1..(pitch * data.h) |->
                    LET s == (i - 1) \div pitch
                        j == ((i - 1) % pitch) + 1
                    IN IF j <= data.w * data.ch
                       THEN SwizzleRow(data.rows[data.h - s], data.ch)[j]
                       ELSE 0]]

\* the pixel rows the codec writes for a bitmap
Encode(bm) ==
    LET ch == bm.bpp \div 8
    IN [w |-> bm.w, h |-> bm.h, ch |-> ch,
        rows |-> [t \in 1..bm.h |-> SwizzleRow(Bytes(bm.bits, (bm.h - t) * bm.pitch, bm.w * ch), ch)]]

\* FreeImage_Allocate: a zeroed bitmap, none for an empty size
FreeImage_Allocate(w, h, bpp) ==
    IF w <= 0 \/ h <= 0 THEN NullBitmap
    ELSE [w |-> w, h |-> h, bpp |-> bpp, color |-> ColorOf(bpp \div 8),
          pitch |-> BitmapPitch(w, bpp), bits |-> Fill(BitmapPitch(w, bpp) * h, 0)]

FreeImage_ConvertTo32Bits(bm) ==
    LET n == bm.bpp \div 8
        pitch == BitmapPitch(bm.w, BitsC4)
    IN [w |-> bm.w, h |-> bm.h, bpp |-> BitsC4, color |-> "RGBALPHA", pitch |-> pitch,
        bits |-> [i \in 1..(pitch * bm.h) |->
                    LET s == (i - 1) \div pitch
                        p == ((i - 1) % pitch) \div BytesC4
                        c == (i - 1) % BytesC4
                        off == s * bm.pitch + p * n
                    IN IF n = BytesC4 THEN bm.bits[off + c + 1]
                       ELSE IF c = 3 THEN Opaque
                       ELSE IF n = 1 THEN bm.bits[off + 1]
                       ELSE bm.bits[off + c + 1]]]

FreeImage_GetFileType(f) == disk[f].sig

FreeImage_GetFIFFromFilename(f) == disk[f].ext

FreeImage_FIFSupportsReading(fmt) == fmt \in {"PGM", "PNG"}

FreeImage_Load(fmt, f) ==
    IF disk[f].ok /\ disk[f].sig = fmt THEN Decode(disk[f].data) ELSE NullBitmap

\* the file FreeImage_Save writes; from: the pixel rows of the image it was saved from
SavedFile(fmt, bm, from) ==
    [sig |-> fmt, ext |-> fmt, ok |-> TRUE, data |-> Encode(bm), from |-> from]

\* ------------------------------------------------------------ sample files
Pix(seed, t, j) == (seed + 16 * t + j) % 256

Sample(seed, w, h, ch) ==
    [w |-> w, h |-> h, ch |-> ch,
     rows |-> [t \in 1..h |-> [j \in 1..(w * ch) |-> Pix(seed, t, j)]]]

InputFiles == {"gray.pgm", "rgb.png", "blob", "pic.wr", "bad.pgm"}
OutPGM == "out.pgm"
OutPNG == "out.png"
Files == InputFiles \cup {OutPGM, OutPNG}

Disk0 ==
    [f \in Files |->
        CASE f = "gray.pgm" -> [sig |-> "PGM", ext |-> "PGM", ok |-> TRUE,
                                 data |-> Sample(1, 3, 2, 1), from |-> <<>>]
          [] f = "rgb.png"  -> [sig |-> "PNG", ext |-> "PNG", ok |-> TRUE,
                                 data |-> Sample(3, 1, 2, 3), from |-> <<>>]
          [] f = "blob"     -> [sig |-> "UNKNOWN", ext |-> "UNKNOWN", ok |-> FALSE,
                                 data |-> NoData, from |-> <<>>]
          [] f = "pic.wr"   -> [sig |-> "WRONLY", ext |-> "WRONLY", ok |-> FALSE,
                                 data |-> NoData, from |-> <<>>]
          [] f = "bad.pgm"  -> [sig |-> "PGM", ext |-> "PGM", ok |-> FALSE,
                                 data |-> NoData, from |-> <<>>]
          [] f = OutPGM     -> [sig |-> "UNKNOWN", ext |-> "PGM", ok |-> FALSE,
                                 data |-> NoData, from |-> <<>>]
          [] OTHER          -> [sig |-> "UNKNOWN", ext |-> "PNG", ok |-> FALSE,
                                 data |-> NoData, from |-> <<>>]]

\* ---------------------------------------------------------- result records
\* What a call returns to the action that models the caller:
\*   outcome  "ok" (returned), "threw", "ret_true", "ret_false" or "crash"
\*   image    the caller's image after the call
\*   slot     the bitmap the gray loader's pBitmap was last assigned
\*   bitmap   the bitmap whose scan-lines were copied (NullBitmap: none copied)
\*   stored   the caller's image was replaced
\*   loaded   the codec loaded a bitmap from the named file
Result(outcome, err, hp, im, slot, bm, stored, loaded) ==
    [outcome |-> outcome, err |-> err, heap |-> hp, image |-> im, slot |-> slot,
     bitmap |-> bm, stored |-> stored, loaded |-> loaded]

\* ----------------------------------------- buffer operations (ImagePacked)
\* a.swap(b): the two images exchange what they own
Swap(a, b) == [first |-> b, second |-> a]

\* ~ImagePacked: the image's region is released
Destruct(hp, im) == Free2D(hp, im.reg)

\* dst = src: dst gets a region of its own with a copy of src's rows
Assign(hp, dst, src, n, pitch) ==
    IF src.reg = 0
    THEN [heap |-> Free2D(hp, dst.reg), image |-> NoImage]
    ELSE LET hp1 == Malloc2D(hp, pitch, src.h)
             im == NewImage(hp, src.w, src.h, pitch)
             bytes == Copy2D(hp1[im.reg].bytes, pitch, hp[src.reg].bytes, src.pitch,
                             src.w * n, src.h, 0)
         IN [heap |-> Free2D(Store(hp1, im.reg, bytes), dst.reg), image |-> im]

\* ImageNPP(const ImageCPU &): the upload
\* copyTo(host data, host pitch): the download
Transfer(hp, dstReg, dstPitch, src, n) ==
    Store(hp, dstReg, Copy2D(hp[dstReg].bytes, dstPitch, hp[src.reg].bytes, src.pitch,
                             src.w * n, src.h, 0))

\* ------------------------------------------------- loadImage, gray, host
\* ImageIO.h 83-94: the scan-lines are copied last one first
RECURSIVE LoadC1_CopyLines(_, _, _, _, _, _, _, _)
LoadC1_CopyLines(dst, nDstPitch, bits, nSrcPitch, srcOff, width, height, iLine) ==
    IF iLine >= height THEN dst
    ELSE LoadC1_CopyLines(Memcpy(dst, iLine * nDstPitch, bits, srcOff, width * BytesC1),
                          nDstPitch, bits, nSrcPitch, srcOff - nSrcPitch, width, height,
                          iLine + 1)

\* ImageIO.h 96-99: oImage.swap(rImage), then oImage goes out of scope
LoadC1_HandOver(hp, oImage, rImage) ==
    LET sw == Swap(oImage, rImage)
    IN [heap |-> Destruct(hp, sw.first), image |-> sw.second]

\* the gray loader never proceeds without both pixel-format checks
LoadC1_FormatOk(pBitmap) == pBitmap.color = "MINISBLACK" /\ pBitmap.bpp = BitsC1

\* uninit: the value pBitmap holds when no branch assigns it
\* fault: the step the environment makes fail ("alloc": the host allocator)
loadImage_CPU_C1(hp, rImage, f, uninit, fault) ==
    LET sig == FreeImage_GetFileType(f)
        eFormat == IF sig = "UNKNOWN" THEN FreeImage_GetFIFFromFilename(f) ELSE sig
        canRead == FreeImage_FIFSupportsReading(eFormat)
        pBitmap == IF canRead THEN FreeImage_Load(eFormat, f) ELSE uninit
        loaded == canRead /\ pBitmap # NullBitmap
        slot == IF canRead THEN pBitmap ELSE pBitmapSlot
        w == pBitmap.w
        h == pBitmap.h
        pitch == HostPitch(w, BytesC1)
    IN IF eFormat = "UNKNOWN"
       THEN Result("threw", "DecodeError", hp, rImage, pBitmapSlot, NullBitmap, FALSE, FALSE)
       ELSE IF pBitmap = NullBitmap
       THEN Result("threw", "DecodeError", hp, rImage, slot, NullBitmap, FALSE, FALSE)
       ELSE IF pBitmap = WildBitmap
       THEN Result("crash", "none", hp, rImage, slot, NullBitmap, FALSE, FALSE)
       ELSE IF ~LoadC1_FormatOk(pBitmap)
       THEN Result("threw", "DecodeError", hp, rImage, slot, NullBitmap, FALSE, loaded)
       ELSE IF fault = "alloc" \/ ~CanAlloc(hp, w, h)
       THEN Result("threw", "AllocationError", hp, rImage, slot, NullBitmap, FALSE, loaded)
       ELSE LET hp1 == Malloc2D(hp, pitch, h)
                oImage == NewImage(hp, w, h, pitch)
                bytes == LoadC1_CopyLines(hp1[oImage.reg].bytes, pitch, pBitmap.bits,
                                          pBitmap.pitch, pBitmap.pitch * (h - 1), w, h, 0)
                ho == LoadC1_HandOver(Store(hp1, oImage.reg, bytes), oImage, rImage)
            IN Result("ok", "none", ho.heap, ho.image, slot, pBitmap, TRUE, loaded)

\* ------------------------------------------------- loadImage, 4 channels
\* a copy loop that reads the scan-lines in storage order
RECURSIVE LoadC4_CopyRows_NoFlip(_, _, _, _, _, _, _, _)
LoadC4_CopyRows_NoFlip(dst, nDstPitch, h_img, nSrcPitch, destIndex, width, height, srcIndex) ==
    IF srcIndex >= height THEN dst
    ELSE LoadC4_CopyRows_NoFlip(Memcpy(dst, srcIndex * nDstPitch, h_img, srcIndex * nSrcPitch,
                                       width * BytesC4),
                                nDstPitch, h_img, nSrcPitch, destIndex, width, height,
                                srcIndex + 1)

\* ImageIO.h 123-131: row srcIndex of the image is scan-line height-1-srcIndex
RECURSIVE LoadC4_CopyRows(_, _, _, _, _, _, _, _)
LoadC4_CopyRows(dst, nDstPitch, h_img, nSrcPitch, destIndex, width, height, srcIndex) ==
    IF srcIndex >= height THEN dst
    ELSE LoadC4_CopyRows(Memcpy(dst, srcIndex * nDstPitch, h_img, destIndex * nSrcPitch,
                                width * BytesC4),
                         nDstPitch, h_img, nSrcPitch, destIndex - 1, width, height,
                         srcIndex + 1)

\* ImageIO.h 134-135: control reaches the end of a function returning bool
\* without a return statement; ret is what the caller then observes
LoadC4_Return(ret) == ret

\* fault: "alloc" (oHostSrc), "assign" (the allocation of the assignment)
loadImage_CPU_C4(hp, outCPUMemory, fileName, fault, ret) ==
    LET dib == FreeImage_Load("PNG", fileName)
        dib32 == FreeImage_ConvertTo32Bits(dib)
        width == dib32.w
        height == dib32.h
        pitch == HostPitch(width, BytesC4)
    IN IF dib = NullBitmap
       THEN Result("ret_false", "none", hp, outCPUMemory, pBitmapSlot, NullBitmap, FALSE, FALSE)
       ELSE IF fault = "alloc" \/ ~CanAlloc(hp, width, height)
       THEN Result("threw", "AllocationError", hp, outCPUMemory, pBitmapSlot, NullBitmap,
                   FALSE, TRUE)
       ELSE LET hp1 == Malloc2D(hp, pitch, height)
                oHostSrc == NewImage(hp, width, height, pitch)
                bytes == LoadC4_CopyRows(hp1[oHostSrc.reg].bytes, pitch, dib32.bits,
                                         dib32.pitch, height - 1, width, height, 0)
                hp2 == Store(hp1, oHostSrc.reg, bytes)
            IN IF fault = "assign" \/ ~CanAlloc(hp2, width, height)
               THEN Result("threw", "AllocationError", Destruct(hp2, oHostSrc), outCPUMemory,
                           pBitmapSlot, dib32, FALSE, TRUE)
               ELSE LET as == Assign(hp2, outCPUMemory, oHostSrc, BytesC4, pitch)
                    IN Result(LoadC4_Return(ret), "none", Destruct(as.heap, oHostSrc),
                              as.image, pBitmapSlot, dib32, TRUE, TRUE)

\* ------------------------------------------------------------- saveImage
\* what a save returns: the file it wrote, or the file as it was
SaveResult(outcome, err, hp, file) ==
    [outcome |-> outcome, err |-> err, heap |-> hp, file |-> file]

\* a copy loop that writes the scan-lines in image order
RECURSIVE Save_CopyLines_NoFlip(_, _, _, _, _, _, _, _, _)
Save_CopyLines_NoFlip(bits, nDstPitch, dstOff, src, nSrcPitch, width, height, n, iLine) ==
    IF iLine >= height THEN bits
    ELSE Save_CopyLines_NoFlip(Memcpy(bits, iLine * nDstPitch, src, iLine * nSrcPitch, width * n),
                               nDstPitch, dstOff, src, nSrcPitch, width, height, n, iLine + 1)

\* ImageIO.h 145-155 and 171-181: row iLine of the image becomes scan-line
\* height-1-iLine of the bitmap; n bytes per pixel are copied
RECURSIVE Save_CopyLines(_, _, _, _, _, _, _, _, _)
Save_CopyLines(bits, nDstPitch, dstOff, src, nSrcPitch, width, height, n, iLine) ==
    IF iLine >= height THEN bits
    ELSE Save_CopyLines(Memcpy(bits, dstOff, src, iLine * nSrcPitch, width * n),
                        nDstPitch, dstOff - nDstPitch, src, nSrcPitch, width, height, n,
                        iLine + 1)

\* the two host savers differ in the bits per pixel, the bytes per pixel and the format
Save_Host(hp, rImage, f, fault, bpp, n, fmt) ==
    LET pResultBitmap == FreeImage_Allocate(rImage.w, rImage.h, bpp)
        nDstPitch == pResultBitmap.pitch
        bits == Save_CopyLines(pResultBitmap.bits, nDstPitch, nDstPitch * (rImage.h - 1),
                               hp[rImage.reg].bytes, rImage.pitch, rImage.w, rImage.h, n, 0)
    IN IF pResultBitmap = NullBitmap
       THEN SaveResult("threw", "EncodeError", hp, disk[f])
       ELSE IF fault = "save"
       THEN SaveResult("threw", "EncodeError", hp, disk[f])
       ELSE SaveResult("ok", "none", hp,
                       SavedFile(fmt, [pResultBitmap EXCEPT !.bits = bits],
                                 PixelRows(hp, rImage, n)))

saveImage_CPU_C1(hp, rImage, f, fault) == Save_Host(hp, rImage, f, fault, BitsC1, BytesC1, "PGM")

saveImage_CPU_C4(hp, rImage, f, fault) == Save_Host(hp, rImage, f, fault, BitsC4, BytesC4, "PNG")

\* ImageIO.h 206-207: the result of the host saver, after oHostImage is destroyed
SaveNPP_Finish(r, oHostImage) ==
    SaveResult(r.outcome, r.err, Destruct(r.heap, oHostImage), r.file)

\* ImageIO.h 205-206: copyTo the local host image, then save it
SaveNPP_Download(hp1, oHostImage, rImage, f, fault) ==
    IF fault = "download"
    THEN SaveResult("threw", "TransferError", Destruct(hp1, oHostImage), disk[f])
    ELSE SaveNPP_Finish(
             saveImage_CPU_C1(Transfer(hp1, oHostImage.reg, oHostImage.pitch, rImage, BytesC1),
                              oHostImage, f, fault),
             oHostImage)

\* ImageIO.h 200-207: download into a local host image, then save it
saveImage_NPP_C1(hp, rImage, f, fault) ==
    IF fault = "alloc" \/ ~CanAlloc(hp, rImage.w, rImage.h)
    THEN SaveResult("threw", "AllocationError", hp, disk[f])
    ELSE SaveNPP_Download(Malloc2D(hp, HostPitch(rImage.w, BytesC1), rImage.h),
                          NewImage(hp, rImage.w, rImage.h, HostPitch(rImage.w, BytesC1)),
                          rImage, f, fault)

\* ------------------------------------------------ loadImage, gray, device
\* a hand-over that copies oResult's fields into rImage instead of swapping
LoadNPP_HandOver_Alias(hp, rImage, oResult, oImage) ==
    [heap |-> Destruct(Destruct(Destruct(hp, rImage), oResult), oImage), image |-> oResult]

\* ImageIO.h 196-197: rImage.swap(oResult), then oResult and oImage go out of scope
LoadNPP_HandOver(hp, rImage, oResult, oImage) ==
    LET sw == Swap(rImage, oResult)
    IN [heap |-> Destruct(Destruct(hp, sw.second), oImage), image |-> sw.first]

\* ImageIO.h 195-197: upload into oResult, hand it over
LoadNPP_Upload(hp1, oResult, r, rImage, fault) ==
    IF fault = "upload"
    THEN Result("threw", "TransferError", Destruct(Destruct(hp1, oResult), r.image), rImage,
                r.slot, r.bitmap, FALSE, r.loaded)
    ELSE LET ho == LoadNPP_HandOver(Transfer(hp1, oResult.reg, oResult.pitch, r.image, BytesC1),
                                    rImage, oResult, r.image)
         IN Result("ok", "none", ho.heap, ho.image, r.slot, r.bitmap, TRUE, r.loaded)

\* ImageIO.h 193-197: r is what the host loader did to the local oImage
LoadNPP_After(r, rImage, fault) ==
    IF r.outcome # "ok"
    THEN Result(r.outcome, r.err, Destruct(r.heap, r.image), rImage, r.slot, r.bitmap,
                FALSE, r.loaded)
    ELSE IF fault = "devalloc" \/ ~CanAlloc(r.heap, r.image.w, r.image.h)
    THEN Result("threw", "AllocationError", Destruct(r.heap, r.image), rImage, r.slot,
                r.bitmap, FALSE, r.loaded)
    ELSE LoadNPP_Upload(Malloc2D(r.heap, DevPitch(r.image.w, BytesC1), r.image.h),
                        NewImage(r.heap, r.image.w, r.image.h, DevPitch(r.image.w, BytesC1)),
                        r, rImage, fault)

\* fault: "alloc" (host), "devalloc" (device), "upload"
loadImage_NPP_C1(hp, rImage, f, uninit, fault) ==
    LoadNPP_After(loadImage_CPU_C1(hp, NoImage, f, uninit, fault), rImage, fault)

\* ------------------------------------------------------------ MipMapChunk
NPPI_INTER_LINEAR == 2

NoCall == [srcReg |-> 0, srcPitch |-> 0, srcSize |-> <<0, 0>>, srcROI |-> <<0, 0, 0, 0>>,
           dstReg |-> 0, dstPitch |-> 0, dstSize |-> <<0, 0>>, dstROI |-> <<0, 0, 0, 0>>,
           interp |-> 0, ctx |-> "none", status |-> "none"]

\* a constructor that takes the region of interest from the target size
Chunk_SrcROI_Target(srcImage, width, height) == <<0, 0, width, height>>

\* a constructor whose member buffer is not released when the resize fails
Chunk_OnResizeFailure_Leak(hp, GPUMemory) == hp

\* a constructor that synchronizes the stream before it returns
Chunk_Waits_Sync == TRUE

\* MipMapChunk.h 23-24: the source size and the source region of interest
Chunk_SrcSize(srcImage) == <<srcImage.w, srcImage.h>>

Chunk_SrcROI(srcImage, width, height) == <<0, 0, srcImage.w, srcImage.h>>

\* MipMapChunk.h 32-36: NPP_CHECK_NPP throws out of the constructor, and the
\* member GPUMemory, already constructed, is destroyed
Chunk_OnResizeFailure(hp, GPUMemory) == Destruct(hp, GPUMemory)

\* MipMapChunk.h 32-35: the constructor hands the resize to the stream context
\* and returns; it synchronizes nothing
Chunk_Waits == FALSE

ChunkResult(outcome, err, hp, size, mem, call, waits) ==
    [outcome |-> outcome, err |-> err, heap |-> hp,
     chunk |-> [Size |-> size, GPUMemory |-> mem], call |-> call, waits |-> waits]

\* fault: "alloc" (the temporary), "assign" (the member's own region),
\*        "resize" (the primitive reports a device-side failure)
MipMapChunk(hp, srcImage, width, height, streamCtx, eInterpolation, fault) ==
    LET srcSize == Chunk_SrcSize(srcImage)
        srcROI == Chunk_SrcROI(srcImage, width, height)
        Size == <<width, height>>
        roi == <<0, 0, Size[1], Size[2]>>
        pitch == DevPitch(Size[1], BytesC4)
    IN IF fault = "alloc" \/ ~CanAlloc(hp, Size[1], Size[2])
       THEN ChunkResult("threw", "AllocationError", hp, Size, NoImage, NoCall, FALSE)
       ELSE LET hp1 == Malloc2D(hp, pitch, Size[2])
                tmp == NewImage(hp, Size[1], Size[2], pitch)
            IN IF fault = "assign" \/ ~CanAlloc(hp1, Size[1], Size[2])
               THEN ChunkResult("threw", "AllocationError", Destruct(hp1, tmp), Size, NoImage,
                                NoCall, FALSE)
               ELSE LET as == Assign(hp1, NoImage, tmp, BytesC4, pitch)
                        hp2 == Destruct(as.heap, tmp)
                        GPUMemory == as.image
                        call == [srcReg |-> srcImage.reg, srcPitch |-> srcImage.pitch,
                                 srcSize |-> srcSize, srcROI |-> srcROI,
                                 dstReg |-> GPUMemory.reg, dstPitch |-> GPUMemory.pitch,
                                 dstSize |-> Size, dstROI |-> roi,
                                 interp |-> eInterpolation, ctx |-> streamCtx,
                                 status |-> IF fault = "resize" THEN "error" ELSE "success"]
                    IN IF fault = "resize"
                       THEN ChunkResult("threw", "ResizeError",
                                        Chunk_OnResizeFailure(hp2, GPUMemory), Size, NoImage,
                                        call, FALSE)
                       ELSE ChunkResult("ok", "none", hp2, Size, GPUMemory, call, Chunk_Waits)

\* ------------------------------------------------------------------- Init
SrcW == 2
SrcH == 2

CallerImages == {"h1", "h1b", "h4", "d1"}
Images == CallerImages \cup {"src"}

\* bytes per pixel of each of the caller's images
Chan(name) == IF name \in {"h4", "src"} THEN BytesC4 ELSE BytesC1

NoLast == [op |-> "none", file |-> "none", target |-> "none", outcome |-> "none",
           err |-> "none", bitmap |-> NullBitmap, stored |-> FALSE, loaded |-> FALSE,
           before |-> NoImage, beforeMem |-> <<>>]

NoBuild == [pc |-> "idle", req |-> <<>>, k |-> 0, err |-> "none", src0 |-> NoImage,
            srcMem0 |-> <<>>, pre |-> {}, returned |-> <<>>]

Stream0 == [enq |-> 0, done |-> 0, synced |-> 0]

\* a constructed image's memory: pixel bytes from a pattern, padding uninitialised
InitBytes(seed, w, h, n, pitch) ==
    [i \in 1..(pitch * h) |->
        IF ((i - 1) % pitch) < w * n THEN Pix(seed, (i - 1) \div pitch, i) ELSE Junk]

InitImage(name) ==
    CASE name = "src" -> [w |-> SrcW, h |-> SrcH, pitch |-> DevPitch(SrcW, BytesC4), reg |-> 1,
                          alive |-> TRUE]
      [] name = "h1"  -> [w |-> 2, h |-> 3, pitch |-> HostPitch(2, BytesC1), reg |-> 2,
                          alive |-> TRUE]
      [] name = "h4"  -> [w |-> 1, h |-> 3, pitch |-> HostPitch(1, BytesC4), reg |-> 3,
                          alive |-> TRUE]
      [] OTHER        -> NoImage

\* the state after the caller has constructed its images: the full-resolution
\* source is on the device, the two host images hold pixels, the other shells
\* are empty
Init ==
    /\ hostPad \in 0..MaxPad
    /\ devPad \in 0..MaxPad
    /\ img = [n \in Images |-> InitImage(n)]
    /\ heap = [r \in Regions |->
                IF \E n \in Images : InitImage(n).reg = r
                THEN LET n == CHOOSE m \in Images : InitImage(m).reg = r
                     IN [st |-> "live", frees |-> 0,
                         bytes |-> InitBytes(4 + r, InitImage(n).w, InitImage(n).h, Chan(n),
                                             InitImage(n).pitch)]
                ELSE [st |-> "unalloc", frees |-> 0, bytes |-> <<>>]]
    /\ disk = Disk0
    /\ pBitmapSlot = NullBitmap
    /\ last = NoLast
    /\ nOps = 0
    /\ build = NoBuild
    /\ chain = <<>>
    /\ stream = Stream0
    /\ resizeLog = <<>>
    /\ reads = {}

\* ------------------------------------------------------------ I/O actions
\* the caller may make another I/O call
CanCall == nOps < MaxOps /\ last.outcome # "crash" /\ build.pc = "idle"

\* the caller's image and its memory, as they are before a call
Snapshot(name) == IF img[name].reg = 0 THEN <<>> ELSE heap[img[name].reg].bytes

Called(op, f, target, r) ==
    [op |-> op, file |-> f, target |-> target, outcome |-> r.outcome, err |-> r.err,
     bitmap |-> r.bitmap, stored |-> r.stored, loaded |-> r.loaded,
     before |-> img[target], beforeMem |-> Snapshot(target)]

Saved(op, f, source, r) ==
    [op |-> op, file |-> f, target |-> source, outcome |-> r.outcome, err |-> r.err,
     bitmap |-> NullBitmap, stored |-> FALSE, loaded |-> FALSE,
     before |-> img[source], beforeMem |-> Snapshot(source)]

\* values an unassigned pBitmap can hold: null, a pointer to no bitmap, or the
\* bitmap of an earlier call (the loader never unloads its bitmaps)
Uninit == {NullBitmap, WildBitmap, pBitmapSlot}

LoadGrayHost(f) ==
    /\ CanCall /\ img["h1"].alive
    /\ \E uninit \in Uninit, fault \in {"none", "alloc"} :
          LET r == loadImage_CPU_C1(heap, img["h1"], f, uninit, fault)
          IN /\ heap' = r.heap
             /\ img' = [img EXCEPT !["h1"] = r.image]
             /\ pBitmapSlot' = r.slot
             /\ last' = Called("loadImage_CPU_C1", f, "h1", r)
    /\ nOps' = nOps + 1
    /\ UNCHANGED <<disk, hostPad, devPad, build, chain, stream, resizeLog, reads>>

LoadColorHost(f) ==
    /\ CanCall /\ img["h4"].alive
    /\ \E fault \in {"none", "alloc", "assign"}, ret \in {"ret_true", "ret_false", "crash"} :
          LET r == loadImage_CPU_C4(heap, img["h4"], f, fault, ret)
          IN /\ heap' = r.heap
             /\ img' = [img EXCEPT !["h4"] = r.image]
             /\ last' = Called("loadImage_CPU_C4", f, "h4", r)
    /\ nOps' = nOps + 1
    /\ UNCHANGED <<disk, pBitmapSlot, hostPad, devPad, build, chain, stream, resizeLog, reads>>

LoadGrayDevice(f) ==
    /\ CanCall /\ img["d1"].alive
    /\ \E uninit \in Uninit, fault \in {"none", "alloc", "devalloc", "upload"} :
          LET r == loadImage_NPP_C1(heap, img["d1"], f, uninit, fault)
          IN /\ heap' = r.heap
             /\ img' = [img EXCEPT !["d1"] = r.image]
             /\ pBitmapSlot' = r.slot
             /\ last' = Called("loadImage_NPP_C1", f, "d1", r)
    /\ nOps' = nOps + 1
    /\ UNCHANGED <<disk, hostPad, devPad, build, chain, stream, resizeLog, reads>>

SaveGrayHost ==
    /\ CanCall /\ img["h1"].alive
    /\ \E fault \in {"none", "save"} :
          LET r == saveImage_CPU_C1(heap, img["h1"], OutPGM, fault)
          IN /\ heap' = r.heap
             /\ disk' = [disk EXCEPT ![OutPGM] = r.file]
             /\ last' = Saved("saveImage_CPU_C1", OutPGM, "h1", r)
    /\ nOps' = nOps + 1
    /\ UNCHANGED <<img, pBitmapSlot, hostPad, devPad, build, chain, stream, resizeLog, reads>>

SaveColorHost ==
    /\ CanCall /\ img["h4"].alive
    /\ \E fault \in {"none", "save"} :
          LET r == saveImage_CPU_C4(heap, img["h4"], OutPNG, fault)
          IN /\ heap' = r.heap
             /\ disk' = [disk EXCEPT ![OutPNG] = r.file]
             /\ last' = Saved("saveImage_CPU_C4", OutPNG, "h4", r)
    /\ nOps' = nOps + 1
    /\ UNCHANGED <<img, pBitmapSlot, hostPad, devPad, build, chain, stream, resizeLog, reads>>

SaveGrayDevice ==
    /\ CanCall /\ img["d1"].alive
    /\ \E fault \in {"none", "alloc", "download", "save"} :
          LET r == saveImage_NPP_C1(heap, img["d1"], OutPGM, fault)
          IN /\ heap' = r.heap
             /\ disk' = [disk EXCEPT ![OutPGM] = r.file]
             /\ last' = Saved("saveImage_NPP_C1", OutPGM, "d1", r)
    /\ nOps' = nOps + 1
    /\ UNCHANGED <<img, pBitmapSlot, hostPad, devPad, build, chain, stream, resizeLog, reads>>

\* h1.swap(h1b)
Exchange ==
    /\ CanCall /\ img["h1"].alive /\ img["h1b"].alive
    /\ LET sw == Swap(img["h1"], img["h1b"])
       IN img' = [img EXCEPT !["h1"] = sw.first, !["h1b"] = sw.second]
    /\ last' = [NoLast EXCEPT !.op = "swap", !.outcome = "ok"]
    /\ nOps' = nOps + 1
    /\ UNCHANGED <<heap, disk, pBitmapSlot, hostPad, devPad, build, chain, stream, resizeLog,
                   reads>>

\* one of the caller's images goes out of scope
Destroy(name) ==
    /\ CanCall /\ img[name].alive
    /\ heap' = Destruct(heap, img[name])
    /\ img' = [img EXCEPT ![name] = [NoImage EXCEPT !.alive = FALSE]]
    /\ last' = [NoLast EXCEPT !.op = "destroy", !.outcome = "ok", !.target = name]
    /\ nOps' = nOps + 1
    /\ UNCHANGED <<disk, pBitmapSlot, hostPad, devPad, build, chain, stream, resizeLog, reads>>

\* ------------------------------------------------------------ chain build
\* target sizes a caller may request: the source's own size, a smaller one,
\* and one that is not positive
Targets == {<<SrcW, SrcH>>, <<1, 1>>, <<0, 1>>}

Requests == UNION {[1..n -> Targets] : n \in 1..MaxLevels}

\* the image every level is resampled from
Builder_Input(k) == img["src"]

RECURSIVE ReleaseAll(_, _)
ReleaseAll(hp, levels) ==
    IF levels = <<>> THEN hp
    ELSE ReleaseAll(Destruct(hp, Head(levels).GPUMemory), Tail(levels))

\* the chain handed to the caller: level 0 is the source itself
Returned(levels) ==
    <<[index |-> 0, Size |-> <<img["src"].w, img["src"].h>>, reg |-> img["src"].reg]>>
    \o [k \in 1..Len(levels) |->
          [index |-> k, Size |-> levels[k].Size, reg |-> levels[k].GPUMemory.reg]]

BuildStart(req) ==
    /\ build.pc = "idle" /\ nOps <= MaxOpsBeforeBuild /\ last.outcome # "crash"
    /\ img["src"].alive
    /\ build' = [pc |-> "building", req |-> req, k |-> 1, err |-> "none",
                 src0 |-> img["src"], srcMem0 |-> heap[img["src"].reg].bytes,
                 pre |-> {r \in Regions : heap[r].st # "unalloc"}, returned |-> <<>>]
    /\ chain' = <<>>
    /\ UNCHANGED <<heap, img, ioVars, hostPad, devPad, stream, resizeLog, reads>>

BuildLevel ==
    /\ build.pc = "building" /\ build.k <= Len(build.req)
    /\ \E fault \in {"none", "alloc", "assign", "resize"} :
          LET size == build.req[build.k]
              r == MipMapChunk(heap, Builder_Input(build.k), size[1], size[2], "ctx",
                               NPPI_INTER_LINEAR, fault)
          IN /\ resizeLog' = IF r.call = NoCall THEN resizeLog ELSE Append(resizeLog, r.call)
             /\ IF r.outcome = "ok"
                THEN /\ heap' = r.heap
                     /\ chain' = Append(chain, [index |-> build.k, Size |-> r.chunk.Size,
                                                GPUMemory |-> r.chunk.GPUMemory,
                                                op |-> stream.enq + 1])
                     /\ stream' = [stream EXCEPT !.enq = @ + 1,
                                      !.done = IF r.waits THEN stream.enq + 1 ELSE @]
                     /\ build' = [build EXCEPT !.k = @ + 1]
                ELSE /\ heap' = ReleaseAll(r.heap, chain)
                     /\ chain' = <<>>
                     /\ stream' = stream
                     /\ build' = [build EXCEPT !.pc = "failed", !.err = r.err]
    /\ UNCHANGED <<img, ioVars, hostPad, devPad, reads>>

BuildReturn ==
    /\ build.pc = "building" /\ build.k > Len(build.req)
    /\ build' = [build EXCEPT !.pc = "returned", !.returned = Returned(chain)]
    /\ UNCHANGED <<heap, img, ioVars, hostPad, devPad, chain, stream, resizeLog, reads>>

\* the device completes the next piece of work of the stream
StreamRun ==
    /\ stream.done < stream.enq
    /\ stream' = [stream EXCEPT !.done = @ + 1]
    /\ UNCHANGED <<heap, img, ioVars, hostPad, devPad, build, chain, resizeLog, reads>>

\* the caller waits for the stream
Synchronize ==
    /\ build.pc = "returned" /\ stream.synced < stream.enq
    /\ stream' = [stream EXCEPT !.done = stream.enq, !.synced = stream.enq]
    /\ UNCHANGED <<heap, img, ioVars, hostPad, devPad, build, chain, resizeLog, reads>>

\* the caller downloads level k to save it
ReadLevel(k) ==
    /\ build.pc = "returned" /\ k \in 1..Len(chain) /\ k \notin reads
    /\ chain[k].op <= stream.synced
    /\ reads' = reads \cup {k}
    /\ UNCHANGED <<heap, img, ioVars, hostPad, devPad, build, chain, stream, resizeLog>>

Next ==
    \/ \E f \in Files : LoadGrayHost(f)
    \/ \E f \in Files : LoadColorHost(f)
    \/ \E f \in Files : LoadGrayDevice(f)
    \/ SaveGrayHost
    \/ SaveColorHost
    \/ SaveGrayDevice
    \/ Exchange
    \/ \E n \in CallerImages : Destroy(n)
    \/ \E req \in Requests : BuildStart(req)
    \/ BuildLevel
    \/ BuildReturn
    \/ StreamRun
    \/ Synchronize
    \/ \E k \in 1..MaxLevels : ReadLevel(k)

Spec == Init /\ [][Next]_vars

\* ================================================================= claims
Loads == {"loadImage_CPU_C1", "loadImage_CPU_C4", "loadImage_NPP_C1"}
HostLoads == {"loadImage_CPU_C1", "loadImage_CPU_C4"}

BadTarget(size) == size[1] <= 0 \/ size[2] <= 0

\* the source image is as it was when the build started
SourceIntact ==
    /\ img["src"] = build.src0
    /\ heap[build.src0.reg].st = "live"
    /\ heap[build.src0.reg].frees = 0
    /\ heap[build.src0.reg].bytes = build.srcMem0

\* C1: every resize of a build reads the original source buffer over its full
\* extent (0, 0, source width, source height), never a generated level, and
\* the build leaves the source's size, pitch and contents unchanged.
C1_ResizeFromOriginal ==
    build.pc # "idle" =>
        /\ \A i \in 1..Len(resizeLog) :
              /\ resizeLog[i].srcReg = build.src0.reg
              /\ resizeLog[i].srcPitch = build.src0.pitch
              /\ resizeLog[i].srcSize = <<build.src0.w, build.src0.h>>
              /\ resizeLog[i].srcROI = <<0, 0, build.src0.w, build.src0.h>>
              /\ \A k \in 1..Len(chain) : resizeLog[i].srcReg # chain[k].GPUMemory.reg
        /\ SourceIntact

C1_Witness ==
    /\ build.pc = "returned"
    /\ Len(resizeLog) = 2
    /\ resizeLog[2].dstSize = <<1, 1>>
    /\ resizeLog[2].srcROI # resizeLog[2].dstROI

\* C2: a build with a requested level whose width or height is not positive
\* fails with ResizeError as a whole, returns no chain, and issues no resize
\* for the bad level.
C2_BadTargetIsResizeError ==
    /\ (\E k \in 1..Len(build.req) : BadTarget(build.req[k])) => build.pc # "returned"
    /\ (build.pc = "failed" /\ BadTarget(build.req[build.k])) =>
          /\ build.err = "ResizeError"
          /\ build.returned = <<>>
          /\ \A i \in 1..Len(resizeLog) : ~BadTarget(resizeLog[i].dstSize)

\* C3: after a host load that stored an image, row i of the image equals
\* scan-line H-1-i of the bitmap in its first width*bytesPerPixel bytes, for
\* the 1-channel and the 4-channel loader and whatever the two pitches are.
C3_DecodeFlipsRows ==
    (last.op \in HostLoads /\ last.stored) =>
        LET im == img[last.target]
            bm == last.bitmap
            n == Chan(last.target)
        IN /\ im.w = bm.w
           /\ im.h = bm.h
           /\ \A i \in 0..(im.h - 1) :
                 PixelRow(heap, im, n, i) = Bytes(bm.bits, (bm.h - 1 - i) * bm.pitch, bm.w * n)

C3_Witness ==
    /\ last.op = "loadImage_CPU_C4"
    /\ last.stored
    /\ img["h4"].h > 1
    /\ last.bitmap.bits[1] # last.bitmap.bits[last.bitmap.pitch + 1]

\* C4: loading a file written by saveImage yields an image whose pixel rows
\* are those of the image that was saved, in the same order; pitch and
\* padding may differ.
C4_RoundTrip ==
    (last.op \in HostLoads /\ last.stored /\ last.loaded /\ disk[last.file].from # <<>>) =>
        PixelRows(heap, img[last.target], Chan(last.target)) = disk[last.file].from

C4_Witness ==
    /\ last.op = "loadImage_CPU_C1"
    /\ last.file = OutPGM
    /\ last.stored
    /\ img["h1"].h > 1
    /\ PixelRow(heap, img["h1"], BytesC1, 0) # PixelRow(heap, img["h1"], BytesC1, 1)

\* the regions held by the live images and by the levels of the chain
Held ==
    [n \in {m \in Images : img[m].reg # 0} |-> img[n].reg]

LevelRegs == {chain[k].GPUMemory.reg : k \in 1..Len(chain)}

\* C5: every memory region is owned by at most one live image, no region is
\* released twice, and no live image refers to a released region.
C5_SingleOwner ==
    /\ \A a, b \in DOMAIN Held : a # b => Held[a] # Held[b]
    /\ \A a \in DOMAIN Held : Held[a] \notin LevelRegs /\ heap[Held[a]].st = "live"
    /\ Cardinality(LevelRegs) = Len(chain)
    /\ \A r \in LevelRegs : r # 0 /\ heap[r].st = "live"
    /\ \A r \in Regions : heap[r].frees <= 1

C5_Witness ==
    /\ last.op = "loadImage_NPP_C1"
    /\ last.stored
    /\ last.before.reg # 0
    /\ heap[last.before.reg].st = "released"

\* the caller's image is exactly what it was before the call
TargetUnchanged ==
    /\ img[last.target] = last.before
    /\ Snapshot(last.target) = last.beforeMem

\* C6: a load that fails leaves the caller's image as it was, and the image
\* is replaced only by a load in which every earlier step succeeded (the
\* bitmap was loaded from the named file).
C6_FailedLoadLeavesImage ==
    last.op \in Loads =>
        /\ ~last.stored => TargetUnchanged
        /\ last.stored => last.loaded

\* the three cases in which a decode must fail
Unrecognised(f) == disk[f].sig = "UNKNOWN" /\ disk[f].ext = "UNKNOWN"

Unreadable(f) ==
    \/ ~disk[f].ok
    \/ ~FreeImage_FIFSupportsReading(IF disk[f].sig = "UNKNOWN" THEN disk[f].ext
                                     ELSE disk[f].sig)

FormatMismatch(f, n) == disk[f].ok /\ disk[f].data.ch # n

\* C7: a host load of a file that is unrecognised, cannot be read or loaded,
\* or whose native pixel format is not the loader's, fails with a DecodeError
\* (reported by exception or by the false result) and copies no pixels.
C7_DecodeFails ==
    (last.op \in HostLoads
       /\ (Unrecognised(last.file) \/ Unreadable(last.file)
             \/ FormatMismatch(last.file, Chan(last.target)))) =>
        /\ \/ last.outcome = "threw" /\ last.err = "DecodeError"
           \/ last.outcome = "ret_false"
        /\ last.bitmap = NullBitmap
        /\ ~last.stored

\* a step of the build that constructs one level
LevelStep == build.pc = "building" /\ build' # build /\ build'.pc # "returned"

C9_NoLeakOnFailure ==
    build.pc = "failed" =>
        /\ \A r \in Regions \ build.pre :
              /\ heap[r].st # "live"
              /\ heap[r].st = "released" => heap[r].frees = 1
        /\ SourceIntact

C9_Witness ==
    /\ build.pc = "failed"
    /\ build.err = "ResizeError"
    /\ build.k = 2
    /\ Len(resizeLog) = 2
    /\ heap[resizeLog[2].dstReg].st = "released"

\* C10: the 4-channel loader returns true exactly when it stored the image
\* and false exactly when it failed and left the image unchanged; every path
\* that returns yields one of the two.
C10_BoolResult ==
    (last.op = "loadImage_CPU_C4" /\ last.outcome # "threw") =>
        /\ last.outcome \in {"ret_true", "ret_false"}
        /\ last.outcome = "ret_true" <=> last.stored
        /\ last.outcome = "ret_false" <=> (~last.stored /\ TargetUnchanged)
====
